---- MODULE Spec2Model ----
(***************************************************************************)
(* Model of the crawler (milestone1/infy.py) and of the batch indexer      *)
(* (webscour/indexer/milestone3_indexer.py).                               *)
(*                                                                         *)
(* Python strings are sequences of one-character strings, so that strip,   *)
(* lower, startswith, urlparse and urljoin are computed character by       *)
(* character.                                                              *)
(***************************************************************************)
EXTENDS Integers, Sequences, FiniteSets, TLC

(***************************************************************************)
(* Bounds of the model.                                                    *)
(***************************************************************************)
\* MAX_PAGES is drawn from 0..MaxPagesBound.
MaxPagesBound == 3
\* fetch_with_retry is called on its own with retries drawn from 0..MaxRetries.
MaxRetries == 4

(***************************************************************************)
(* Strings.                                                                *)
(***************************************************************************)
UpperChars == <<"A","B","C","D","E","F","G","H","I","J","K","L","M",
                "N","O","P","Q","R","S","T","U","V","W","X","Y","Z">>
LowerChars == <<"a","b","c","d","e","f","g","h","i","j","k","l","m",
                "n","o","p","q","r","s","t","u","v","w","x","y","z">>
Digits == {"0","1","2","3","4","5","6","7","8","9"}
Letters == {UpperChars[i] : i \in DOMAIN UpperChars} \cup {LowerChars[i] : i \in DOMAIN LowerChars}
\* str.strip() and str.split() whitespace
Whitespace == {" ", "\t", "\n", "\r"}

\* str.lower(), one character
LowerChar(c) ==
  IF \E i \in DOMAIN UpperChars : UpperChars[i] = c
    THEN LowerChars[CHOOSE i \in DOMAIN UpperChars : UpperChars[i] = c]
    ELSE c

\* str.lower()
Lower(s) == [i \in DOMAIN s |-> LowerChar(s[i])]

\* s[from:] in Python terms, from counted from 1 here
Drop(s, n) == IF n >= Len(s) THEN <<>> ELSE SubSeq(s, n + 1, Len(s))
Take(s, n) == IF n <= 0 THEN <<>> ELSE SubSeq(s, 1, IF n > Len(s) THEN Len(s) ELSE n)

\* str.strip(): drop leading and trailing whitespace
Strip(s) ==
  LET keep == {i \in DOMAIN s : s[i] \notin Whitespace}
  IN  IF keep = {} THEN <<>>
      ELSE LET lo == CHOOSE i \in keep : \A j \in keep : i <= j
               hi == CHOOSE i \in keep : \A j \in keep : i >= j
           IN  SubSeq(s, lo, hi)

\* str.startswith(prefix)
StartsWith(s, prefix) ==
  /\ Len(prefix) <= Len(s)
  /\ SubSeq(s, 1, Len(prefix)) = prefix

\* str.endswith(suffix)
EndsWith(s, suffix) ==
  /\ Len(suffix) <= Len(s)
  /\ SubSeq(s, Len(s) - Len(suffix) + 1, Len(s)) = suffix

\* index of the first character of s that is in chars, 0 when there is none
\* (str.find, 1-based)
Find(s, chars) ==
  LET hits == {i \in DOMAIN s : s[i] \in chars}
  IN  IF hits = {} THEN 0 ELSE CHOOSE i \in hits : \A j \in hits : i <= j

\* str.split(sep) for a one-character separator: always at least one part
RECURSIVE SplitOn(_, _)
SplitOn(s, sep) ==
  LET i == Find(s, {sep})
  IN  IF i = 0 THEN <<s>>
      ELSE <<Take(s, i - 1)>> \o SplitOn(Drop(s, i), sep)

\* sep.join(parts)
RECURSIVE JoinWith(_, _)
JoinWith(parts, sep) ==
  IF parts = <<>> THEN <<>>
  ELSE IF Len(parts) = 1 THEN parts[1]
  ELSE parts[1] \o <<sep>> \o JoinWith(Tail(parts), sep)

\* str.split(): split on runs of whitespace, no empty parts
RECURSIVE SplitWhitespace(_)
SplitWhitespace(s) ==
  LET t == Strip(s)
      i == Find(t, Whitespace)
  IN  IF t = <<>> THEN <<>>
      ELSE IF i = 0 THEN <<t>>
      ELSE <<Take(t, i - 1)>> \o SplitWhitespace(Drop(t, i))

(***************************************************************************)
(* urllib.parse, as far as the crawler uses it: scheme, netloc, path,      *)
(* query and fragment (no ;params, no bracketed hosts).                    *)
(***************************************************************************)
SchemeChars == Letters \cup Digits \cup {"+", "-", "."}
\* urllib.parse.uses_relative / uses_netloc, restricted to the schemes of the model
UsesRelative == {<<"h","t","t","p">>, <<"h","t","t","p","s">>, <<"f","t","p">>, <<>>}
UsesNetloc == UsesRelative

\* the position of the colon that ends a scheme, 0 when url has no scheme
SchemeEnd(url) ==
  IF /\ Find(url, {":"}) > 1
     /\ url[1] \in Letters
     /\ \A i \in 1..(Find(url, {":"}) - 1) : url[i] \in SchemeChars
    THEN Find(url, {":"}) ELSE 0

\* s up to its first character in chars (all of s when there is none)
Before(s, chars) == IF Find(s, chars) = 0 THEN s ELSE Take(s, Find(s, chars) - 1)
\* s from its first character in chars on (empty when there is none)
From(s, chars) == IF Find(s, chars) = 0 THEN <<>> ELSE Drop(s, Find(s, chars) - 1)
\* s after its first character in chars (empty when there is none)
After(s, chars) == IF Find(s, chars) = 0 THEN <<>> ELSE Drop(s, Find(s, chars))

\* the netloc of a URL without its scheme
NetlocOf(rest) ==
  IF StartsWith(rest, <<"/", "/">>) THEN Before(Drop(rest, 2), {"/", "?", "#"}) ELSE <<>>
\* what follows the netloc
AfterNetloc(rest) ==
  IF StartsWith(rest, <<"/", "/">>) THEN From(Drop(rest, 2), {"/", "?", "#"}) ELSE rest

\* urlsplit of a URL without its scheme
SplitRest(scheme, rest) ==
  [scheme |-> scheme,
   netloc |-> NetlocOf(rest),
   path |-> Before(Before(AfterNetloc(rest), {"#"}), {"?"}),
   query |-> After(Before(AfterNetloc(rest), {"#"}), {"?"}),
   fragment |-> After(AfterNetloc(rest), {"#"})]

\* urlsplit(url, scheme=default)
UrlSplit(url, default) ==
  IF SchemeEnd(url) > 0
    THEN SplitRest(Lower(Take(url, SchemeEnd(url) - 1)), Drop(url, SchemeEnd(url)))
    ELSE SplitRest(default, url)

\* urlparse(url)
urlparse(url) == UrlSplit(url, <<>>)

\* urlsplit's test of the netloc: one square bracket without the other
InvalidNetloc(netloc) ==
  \/ Find(netloc, {"["}) > 0 /\ Find(netloc, {"]"}) = 0
  \/ Find(netloc, {"]"}) > 0 /\ Find(netloc, {"["}) = 0

\* urlsplit(url) raises ValueError("Invalid IPv6 URL")
UrlSplitRaises(url) ==
  InvalidNetloc(NetlocOf(IF SchemeEnd(url) > 0 THEN Drop(url, SchemeEnd(url)) ELSE url))

\* urlunsplit((scheme, netloc, path, query, fragment))
UrlUnsplit(p) ==
  LET withNetloc ==
        IF p.netloc # <<>> \/ (p.scheme \in UsesNetloc /\ ~StartsWith(p.path, <<"/", "/">>))
          THEN <<"/", "/">> \o p.netloc
               \o (IF p.path # <<>> /\ p.path[1] # "/" THEN <<"/">> ELSE <<>>) \o p.path
          ELSE p.path
      withScheme == IF p.scheme # <<>> THEN p.scheme \o <<":">> \o withNetloc ELSE withNetloc
      withQuery == IF p.query # <<>> THEN withScheme \o <<"?">> \o p.query ELSE withScheme
  IN  IF p.fragment # <<>> THEN withQuery \o <<"#">> \o p.fragment ELSE withQuery

\* the middle of a segment list without its empty segments
\* (segments[1:-1] = filter(None, segments[1:-1]))
DropEmptyMiddle(segs) ==
  IF Len(segs) <= 2 THEN segs
  ELSE <<segs[1]>> \o SelectSeq(SubSeq(segs, 2, Len(segs) - 1), LAMBDA x : x # <<>>)
       \o <<segs[Len(segs)]>>

\* removal of "." and ".." segments
RECURSIVE RemoveDots(_, _)
RemoveDots(segs, acc) ==
  IF segs = <<>> THEN acc
  ELSE IF Head(segs) = <<".", ".">>
    THEN RemoveDots(Tail(segs), IF acc = <<>> THEN acc ELSE SubSeq(acc, 1, Len(acc) - 1))
  ELSE IF Head(segs) = <<".">> THEN RemoveDots(Tail(segs), acc)
  ELSE RemoveDots(Tail(segs), Append(acc, Head(segs)))

\* the path of the joined URL: the relative path merged into the base path
ResolvePath(bpath, upath) ==
  LET bparts0 == SplitOn(bpath, "/")
      bparts == IF bparts0[Len(bparts0)] # <<>>
                  THEN SubSeq(bparts0, 1, Len(bparts0) - 1) ELSE bparts0
      segments == IF upath[1] = "/" THEN SplitOn(upath, "/")
                  ELSE DropEmptyMiddle(bparts \o SplitOn(upath, "/"))
  IN  JoinWith(IF segments[Len(segments)] \in {<<".">>, <<".", ".">>}
                 THEN Append(RemoveDots(segments, <<>>), <<>>)
                 ELSE RemoveDots(segments, <<>>), "/")

\* a path, "/" when it is empty
OrSlash(path) == IF path = <<>> THEN <<"/">> ELSE path

\* urljoin, on the parsed base b and the parsed reference u
JoinParsed(b, u, url) ==
  IF u.scheme # b.scheme \/ u.scheme \notin UsesRelative THEN url
  ELSE IF u.scheme \in UsesNetloc /\ u.netloc # <<>> THEN UrlUnsplit(u)
  ELSE IF u.path = <<>>
    THEN UrlUnsplit([scheme |-> u.scheme,
                     netloc |-> IF u.scheme \in UsesNetloc THEN b.netloc ELSE u.netloc,
                     path |-> b.path,
                     query |-> IF u.query = <<>> THEN b.query ELSE u.query,
                     fragment |-> u.fragment])
  ELSE UrlUnsplit([scheme |-> u.scheme,
                   netloc |-> IF u.scheme \in UsesNetloc THEN b.netloc ELSE u.netloc,
                   path |-> OrSlash(ResolvePath(b.path, u.path)),
                   query |-> u.query,
                   fragment |-> u.fragment])

\* urljoin(base, url) raises ValueError: it parses both of its arguments
urljoinRaises(base, url) ==
  base # <<>> /\ url # <<>> /\ (UrlSplitRaises(base) \/ UrlSplitRaises(url))

\* urljoin(base, url)
urljoin(base, url) ==
  IF base = <<>> THEN url
  ELSE IF url = <<>> THEN base
  ELSE JoinParsed(urlparse(base), UrlSplit(url, urlparse(base).scheme), url)

(***************************************************************************)
(* Task 3: is_valid_url                                                    *)
(***************************************************************************)
bad_prefixes == << <<"m","a","i","l","t","o",":">>,
                   <<"j","a","v","a","s","c","r","i","p","t",":">>,
                   <<"t","e","l",":">>,
                   <<"#">> >>

is_valid_url(url) ==
  IF url = <<>> THEN FALSE
  ELSE LET u == Lower(Strip(url))
       IN  IF \E i \in DOMAIN bad_prefixes : StartsWith(u, bad_prefixes[i]) THEN FALSE
           ELSE urlparse(u).scheme \in {<<"h","t","t","p">>, <<"h","t","t","p","s">>}

\* is_valid_url(url) raises ValueError: the urlparse call of its last lines
IsValidUrlRaises(url) ==
  /\ url # <<>>
  /\ ~\E i \in DOMAIN bad_prefixes : StartsWith(Lower(Strip(url)), bad_prefixes[i])
  /\ UrlSplitRaises(Lower(Strip(url)))

(***************************************************************************)
(* The web the crawler runs against: the pages the server of e.co has, as  *)
(* the href values of their anchors in document order.  Any other URL      *)
(* (another host, a path the server does not have) cannot be fetched.      *)
(***************************************************************************)
Http == <<"h","t","t","p",":","/","/">>
HostE == <<"e",".","c","o">>
HostO == <<"o",".","c","o">>
HomeUrl == Http \o HostE
UrlA == HomeUrl \o <<"/","a">>
UrlB == HomeUrl \o <<"/","b">>
UrlC == HomeUrl \o <<"/","c">>
UrlD == HomeUrl \o <<"/","d">>
OtherB == Http \o HostO \o <<"/","b">>
MailTo == <<"m","a","i","l","t","o",":","x","@","y">>

FtpF == <<"f","t","p",":","/","/","e",".","c","o","/","f">>
UpperD == <<"H","T","T","P",":","/","/","E",".","C","O","/","d">>
JavaScript0 == <<"j","a","v","a","s","c","r","i","p","t",":","0">>
\* an href with an opening square bracket and no closing one
BadBracket == Http \o <<"[">>

Site ==
  (HomeUrl :> <<UrlA, <<"/","b">>, <<"#","t">>, FtpF>>)
  @@ (UrlA :> << <<"b">>, <<"/","c">>, <<"/","a">> >>)
  @@ (UrlB :> << <<"/","a">>, <<"c">>, <<"/","x">> >>)
  @@ (UrlC :> <<UrlD, OtherB, MailTo>>)
  @@ (UrlD :> <<UpperD, JavaScript0, BadBracket>>)

\* the seed URLs crawl is started with
Seeds == {HomeUrl, UrlB}

\* what the server is asked for: the URL without its fragment
RequestTarget(url) == UrlUnsplit([urlparse(url) EXCEPT !.fragment = <<>>])

\* requests.get(url) followed by raise_for_status() can succeed
Fetchable(url) == RequestTarget(url) \in DOMAIN Site

\* soup.find_all("a", href=True) of the page served for url: its href values
Hrefs(url) == Site[RequestTarget(url)]

(***************************************************************************)
(* State.                                                                  *)
(***************************************************************************)
VARIABLES
  pc,             \* position of the running program
  seed_url,       \* crawl: argument
  MAX_PAGES,      \* crawl: argument
  queue,          \* crawl: FIFO queue
  visited,        \* crawl: visited URLs
  duplicate_urls, \* crawl: duplicate counter
  page_id,        \* crawl: next page id
  seed_domain,    \* crawl: netloc of the seed
  current_url,    \* crawl: URL of the iteration; fetch_with_retry: url
  link_i,         \* crawl: position of the for loop over the anchors
  pages,          \* pages/page_<id>.html: id -> URL whose body was written
  visited_file,   \* visited.txt
  retries,        \* fetch_with_retry: argument
  attempt,        \* fetch_with_retry: loop variable
  response,       \* fetch_with_retry: "pending", "response" or "None"
  events,         \* history: attempts and sleeps of the current call
  enq_log,        \* history: every queue entry ever made, in order
  dequeued,       \* history: number of queue.pop(0) so far
  failed,         \* history: URLs whose fetch failed on all attempts
  any_fail,       \* history: some attempt of this run failed
  pages_dir,      \* indexer: the directory PAGES_DIR, file name -> text
  listing,        \* indexer: os.listdir(PAGES_DIR), in the order it yields
  file_i,         \* indexer: position of the for loop over the listing
  inverted_index, \* indexer: word -> list of file names
  doc_count,      \* indexer: number of .html files read
  idf,            \* indexer: word -> idf value
  index_file,     \* inverted_index.json
  idf_file,       \* idf.json
  error,          \* indexer: the exception that ended the run
  run,            \* indexer: 1 in the first run, 2 in the run after it
  first_listing,  \* history: the listing of the first run
  first_index_file, \* history: inverted_index.json after the first run
  first_idf_file, \* history: idf.json after the first run
  v_input,        \* is_valid_url: the argument
  v_url,          \* is_valid_url: the local url
  v_result,       \* is_valid_url: "pending", "True", "False" or "ValueError"
  save_log,       \* history: the pages saved, in order
  snap,           \* history: the crawl state when the iteration began
  last_outcome,   \* history: how the latest iteration went
  delay_ms        \* history: courtesy delay slept since that outcome

vars == <<pc, seed_url, MAX_PAGES, queue, visited, duplicate_urls, page_id,
          seed_domain, current_url, link_i, pages, visited_file, retries,
          attempt, response, events, enq_log, dequeued, failed, any_fail,
          pages_dir, listing, file_i, inverted_index, doc_count, idf,
          index_file, idf_file, error, run, first_listing, first_index_file,
          first_idf_file, v_input, v_url, v_result, save_log, snap,
          last_outcome, delay_ms>>

rerunVars == <<run, first_listing, first_index_file, first_idf_file>>

validVars == <<v_input, v_url, v_result>>

histVars == <<save_log, snap, last_outcome, delay_ms>>

indexVars == <<pages_dir, listing, file_i, inverted_index, doc_count, idf,
               index_file, idf_file, error, rerunVars, validVars>>

fetchVars == <<current_url, retries, attempt, response, events, failed, any_fail>>

crawlVars == <<seed_url, MAX_PAGES, queue, visited, duplicate_urls, page_id,
               seed_domain, link_i, pages, visited_file, enq_log, dequeued>>

\* default of the retries parameter
DefaultRetries == 3

\* a file that does not exist, and a file holding data
AbsentFile == [exists |-> FALSE, data |-> <<>>]
FileOf(d) == [exists |-> TRUE, data |-> d]

\* a directory that does not exist, and a directory holding files
MissingDir == [exists |-> FALSE, files |-> <<>>]
DirOf(f) == [exists |-> TRUE, files |-> f]

NoError == [type |-> "none", path |-> ""]

\* the indexer is not running
IndexerIdle ==
  /\ pages_dir = MissingDir
  /\ listing = <<>>
  /\ file_i = 0
  /\ inverted_index = <<>>
  /\ doc_count = 0
  /\ idf = <<>>
  /\ index_file = AbsentFile
  /\ idf_file = AbsentFile
  /\ error = NoError
  /\ run = 1
  /\ first_listing = <<>>
  /\ first_index_file = AbsentFile
  /\ first_idf_file = AbsentFile

\* is_valid_url is not running on its own
ValidIdle ==
  /\ v_input = <<>>
  /\ v_url = <<>>
  /\ v_result = "pending"

\* the crawl state an iteration starts from
Snapshot == [queue |-> queue, visited |-> visited, page_id |-> page_id,
             duplicate_urls |-> duplicate_urls, pages |-> pages]

\* no iteration has run
HistInit ==
  /\ save_log = <<>>
  /\ snap = Snapshot
  /\ last_outcome = "none"
  /\ delay_ms = 0

(***************************************************************************)
(* crawl(seed_url, MAX_PAGES): the state at the head of the while loop,    *)
(* before its first test.                                                  *)
(***************************************************************************)
Init ==
  /\ seed_url \in Seeds
  /\ MAX_PAGES \in 0..MaxPagesBound
  /\ queue = <<seed_url>>
  /\ visited = {}
  /\ duplicate_urls = 0
  /\ page_id = 1
  /\ seed_domain = urlparse(seed_url).netloc
  /\ pc = "loop"
  /\ current_url = <<>>
  /\ link_i = 0
  /\ pages = <<>>
  /\ visited_file = AbsentFile
  /\ retries = DefaultRetries
  /\ attempt = 0
  /\ response = "pending"
  /\ events = <<>>
  /\ enq_log = <<[url |-> seed_url, base |-> <<>>, href |-> <<>>]>>
  /\ dequeued = 0
  /\ failed = {}
  /\ any_fail = FALSE
  /\ IndexerIdle
  /\ ValidIdle
  /\ HistInit

\* variant: the visited test never fires
AlreadyVisitedNever(url) == FALSE

\* if current_url in visited
AlreadyVisited(url) == url \in visited

\* variant: the link is put at the head of the queue
EnqueueFront(q, url) == <<url>> \o q

\* queue.append(full_url)
Enqueue(q, url) == Append(q, url)

\* variant: duplicates are not counted
CountDuplicateNever(n) == n

\* duplicate_urls += 1
CountDuplicate(n) == n + 1

\* variant: the bound is tested with <= instead of <
LoopConditionOffByOne == queue # <<>> /\ Cardinality(visited) <= MAX_PAGES

\* the test of the while loop
LoopCondition == queue # <<>> /\ Cardinality(visited) < MAX_PAGES

\* the loop ends; visited.txt is written
LoopExit ==
  /\ pc = "loop"
  /\ ~LoopCondition
  /\ visited_file' = FileOf(visited)
  /\ pc' = "done"
  /\ UNCHANGED <<indexVars, histVars, seed_url, MAX_PAGES, queue, visited,
                 duplicate_urls, page_id, seed_domain, current_url, link_i,
                 pages, retries, attempt, response, events, enq_log, dequeued,
                 failed, any_fail>>

\* queue.pop(0) of a URL that is already visited
DequeueDuplicate ==
  /\ pc = "loop"
  /\ LoopCondition
  /\ AlreadyVisited(Head(queue))
  /\ current_url' = Head(queue)
  /\ queue' = Tail(queue)
  /\ dequeued' = dequeued + 1
  /\ duplicate_urls' = CountDuplicate(duplicate_urls)
  /\ pc' = "loop"
  /\ snap' = Snapshot
  /\ last_outcome' = "duplicate"
  /\ delay_ms' = 0
  /\ UNCHANGED <<indexVars, save_log, seed_url, MAX_PAGES, visited, page_id,
                 seed_domain, link_i, pages, visited_file, retries, attempt,
                 response, events, enq_log, failed, any_fail>>

\* queue.pop(0) of a URL that is not visited: fetch_with_retry is called
DequeueFetch ==
  /\ pc = "loop"
  /\ LoopCondition
  /\ ~AlreadyVisited(Head(queue))
  /\ current_url' = Head(queue)
  /\ queue' = Tail(queue)
  /\ dequeued' = dequeued + 1
  /\ retries' = DefaultRetries
  /\ attempt' = 1
  /\ response' = "pending"
  /\ events' = <<>>
  /\ pc' = "for"
  /\ snap' = Snapshot
  /\ UNCHANGED <<indexVars, save_log, last_outcome, delay_ms, seed_url,
                 MAX_PAGES, visited, duplicate_urls, page_id, seed_domain,
                 link_i, pages, visited_file, enq_log, failed, any_fail>>

(***************************************************************************)
(* Task 6: fetch_with_retry                                                *)
(***************************************************************************)
\* time.sleep(1) and time.sleep(0.5), in milliseconds
BackoffMs == 1000
CourtesyDelayMs == 500

\* variant: the function gives up one attempt early
LastAttemptEarly(a, r) == a >= r - 1

\* variant: the last attempt is not recognised, the loop sleeps and runs out
LastAttemptNever(a, r) == FALSE

\* if attempt == retries
LastAttempt(a, r) == a = r

\* for attempt in range(1, retries + 1): the loop goes on
ForNext ==
  /\ pc = "for"
  /\ attempt <= retries
  /\ pc' = "attempt"
  /\ UNCHANGED <<indexVars, histVars, crawlVars, current_url, retries, attempt,
                 response, events, failed, any_fail>>

\* the range is exhausted: the function ends without a return statement
ForEnd ==
  /\ pc = "for"
  /\ attempt > retries
  /\ response' = "None"
  /\ pc' = "returned"
  /\ UNCHANGED <<indexVars, histVars, crawlVars, current_url, retries, attempt,
                 events, failed, any_fail>>

\* requests.get and raise_for_status succeed: return response
AttemptSucceed ==
  /\ pc = "attempt"
  /\ Fetchable(current_url)
  /\ events' = Append(events, [kind |-> "ok", ms |-> 0])
  /\ response' = "response"
  /\ pc' = "returned"
  /\ UNCHANGED <<indexVars, histVars, crawlVars, current_url, retries, attempt,
                 failed, any_fail>>

\* the attempt raises: return None after the last attempt, sleep otherwise
AttemptFail ==
  /\ pc = "attempt"
  /\ events' = Append(events, [kind |-> "fail", ms |-> 0])
  /\ any_fail' = TRUE
  /\ IF LastAttempt(attempt, retries)
       THEN /\ response' = "None"
            /\ pc' = "returned"
       ELSE /\ response' = response
            /\ pc' = "backoff"
  /\ UNCHANGED <<indexVars, histVars, crawlVars, current_url, retries, attempt,
                 failed>>

\* time.sleep(1), then the next attempt of the range
Backoff ==
  /\ pc = "backoff"
  /\ events' = Append(events, [kind |-> "sleep", ms |-> BackoffMs])
  /\ attempt' = attempt + 1
  /\ pc' = "for"
  /\ UNCHANGED <<indexVars, histVars, crawlVars, current_url, retries, response,
                 failed, any_fail>>

(***************************************************************************)
(* crawl, after the fetch                                                  *)
(***************************************************************************)
\* variant: the URL of a failed fetch is marked visited
SkipUrlMarksVisited ==
  /\ pc = "returned"
  /\ response = "None"
  /\ failed' = failed \cup {current_url}
  /\ visited' = visited \cup {current_url}
  /\ pc' = "loop"
  /\ last_outcome' = "failed"
  /\ delay_ms' = 0
  /\ UNCHANGED <<indexVars, save_log, snap, seed_url, MAX_PAGES, queue,
                 duplicate_urls, page_id, seed_domain, link_i, pages,
                 visited_file, enq_log, dequeued, current_url, retries, attempt,
                 response, events, any_fail>>

\* if not response: continue
SkipUrl ==
  /\ pc = "returned"
  /\ response = "None"
  /\ failed' = failed \cup {current_url}
  /\ pc' = "loop"
  /\ last_outcome' = "failed"
  /\ delay_ms' = 0
  /\ UNCHANGED <<indexVars, save_log, snap, crawlVars, current_url, retries,
                 attempt, response, events, any_fail>>

\* the page is written to pages/page_<page_id>.html
SavePage ==
  /\ pc = "returned"
  /\ response = "response"
  /\ pages' = (page_id :> current_url) @@ pages
  /\ link_i' = 1
  /\ pc' = "links"
  /\ save_log' = Append(save_log, [id |-> page_id, url |-> current_url, at |-> dequeued])
  /\ last_outcome' = "saved"
  /\ delay_ms' = 0
  /\ UNCHANGED <<indexVars, snap, seed_url, MAX_PAGES, queue, visited,
                 duplicate_urls, page_id, seed_domain, current_url,
                 visited_file, retries, attempt, response, events, enq_log,
                 dequeued, failed, any_fail>>

\* variant: the same-domain test is missing
EnqueueableAnyDomain(full_url) == is_valid_url(full_url)

\* Task 3 and Task 4: the link is added to the queue
Enqueueable(full_url) ==
  /\ is_valid_url(full_url)
  /\ urlparse(full_url).netloc = seed_domain

\* the link loop raises ValueError: urljoin, is_valid_url or urlparse on a
\* link whose netloc urlsplit refuses
LinkRaisesValueError(base, raw_link) ==
  \/ urljoinRaises(base, raw_link)
  \/ IsValidUrlRaises(urljoin(base, raw_link))
  \/ UrlSplitRaises(urljoin(base, raw_link))

\* the ValueError is caught nowhere: crawl ends with a traceback
LinkRaises ==
  /\ pc = "links"
  /\ link_i <= Len(Hrefs(current_url))
  /\ LinkRaisesValueError(current_url, Hrefs(current_url)[link_i])
  /\ pc' = "aborted"
  /\ UNCHANGED <<indexVars, histVars, seed_url, MAX_PAGES, queue, visited,
                 duplicate_urls, page_id, seed_domain, current_url, link_i,
                 pages, visited_file, retries, attempt, response, events,
                 enq_log, dequeued, failed, any_fail>>

\* one round of the for loop over the anchors of the page
ProcessLink ==
  /\ pc = "links"
  /\ link_i <= Len(Hrefs(current_url))
  /\ ~LinkRaisesValueError(current_url, Hrefs(current_url)[link_i])
  /\ LET raw_link == Hrefs(current_url)[link_i]
         full_url == urljoin(current_url, raw_link)
     IN  IF Enqueueable(full_url)
           THEN /\ queue' = Enqueue(queue, full_url)
                /\ enq_log' = Append(enq_log, [url |-> full_url, base |-> current_url,
                                               href |-> raw_link])
           ELSE UNCHANGED <<queue, enq_log>>
  /\ link_i' = link_i + 1
  /\ UNCHANGED <<indexVars, histVars, pc, seed_url, MAX_PAGES, visited,
                 duplicate_urls, page_id, seed_domain, current_url, pages,
                 visited_file, retries, attempt, response, events, dequeued,
                 failed, any_fail>>

\* the for loop over the anchors ends
LinksDone ==
  /\ pc = "links"
  /\ link_i > Len(Hrefs(current_url))
  /\ pc' = "mark"
  /\ UNCHANGED <<indexVars, histVars, crawlVars, current_url, retries, attempt,
                 response, events, failed, any_fail>>

\* variant: the URL is not added
MarkedNothing(v, url) == v

\* visited.add(current_url)
Marked(v, url) == v \cup {url}

MarkVisited ==
  /\ pc = "mark"
  /\ visited' = Marked(visited, current_url)
  /\ pc' = "incr"
  /\ UNCHANGED <<indexVars, histVars, seed_url, MAX_PAGES, queue,
                 duplicate_urls, page_id, seed_domain, current_url, link_i,
                 pages, visited_file, retries, attempt, response, events,
                 enq_log, dequeued, failed, any_fail>>

\* variant: the id is not advanced
NextPageIdSame(id) == id

\* variant: the id advances by two
NextPageIdTwo(id) == id + 2

\* page_id += 1
NextPageId(id) == id + 1

IncrementPageId ==
  /\ pc = "incr"
  /\ page_id' = NextPageId(page_id)
  /\ pc' = "sleep"
  /\ UNCHANGED <<indexVars, histVars, seed_url, MAX_PAGES, queue, visited,
                 duplicate_urls, seed_domain, current_url, link_i, pages,
                 visited_file, retries, attempt, response, events, enq_log,
                 dequeued, failed, any_fail>>

\* time.sleep(0.5)
CourtesySleep ==
  /\ pc = "sleep"
  /\ pc' = "loop"
  /\ delay_ms' = delay_ms + CourtesyDelayMs
  /\ UNCHANGED <<indexVars, save_log, snap, last_outcome, crawlVars,
                 current_url, retries, attempt, response, events, failed,
                 any_fail>>

Next ==
  \/ LoopExit
  \/ DequeueDuplicate
  \/ DequeueFetch
  \/ ForNext
  \/ AttemptSucceed
  \/ AttemptFail
  \/ Backoff
  \/ SkipUrl
  \/ SavePage
  \/ ProcessLink
  \/ LinkRaises
  \/ LinksDone
  \/ MarkVisited
  \/ IncrementPageId
  \/ CourtesySleep

\* crawl calls fetch_with_retry with retries = 3 only, and there the function
\* returns from inside the loop: ForEnd is a step of FetchNext alone.
Spec == Init /\ [][Next]_vars

(***************************************************************************)
(* fetch_with_retry(url, retries) called on its own.                       *)
(***************************************************************************)
FetchUrls == {HomeUrl, UrlA, UrlB, OtherB}

\* no crawl is running
CrawlIdle ==
  /\ seed_url = <<>>
  /\ MAX_PAGES = 0
  /\ queue = <<>>
  /\ visited = {}
  /\ duplicate_urls = 0
  /\ page_id = 1
  /\ seed_domain = <<>>
  /\ link_i = 0
  /\ pages = <<>>
  /\ visited_file = AbsentFile
  /\ enq_log = <<>>
  /\ dequeued = 0

FetchInit ==
  /\ CrawlIdle
  /\ IndexerIdle
  /\ ValidIdle
  /\ HistInit
  /\ current_url \in FetchUrls
  /\ retries \in 0..MaxRetries
  /\ attempt = 1
  /\ response = "pending"
  /\ events = <<>>
  /\ failed = {}
  /\ any_fail = FALSE
  /\ pc = "for"

FetchNext ==
  \/ ForNext
  \/ ForEnd
  \/ AttemptSucceed
  \/ AttemptFail
  \/ Backoff

FetchSpec == FetchInit /\ [][FetchNext]_vars

(***************************************************************************)
(* is_valid_url(url) called on its own.                                    *)
(***************************************************************************)
\* the arguments of the model: a pad, a prefix, a body and a pad
ValidPads == {<<>>, <<" ">>, <<"\n">>}
ValidPrefixes ==
  {<<"m","a","i","l","t","o",":">>,
   <<"M","A","I","L","T","O",":">>,
   <<"J","a","v","a","S","c","r","i","p","t",":">>,
   <<"t","e","l",":">>,
   <<"T","e","l",":">>,
   <<"#">>,
   <<"h","t","t","p",":","/","/">>,
   <<"H","T","T","P",":","/","/">>,
   <<"h","t","t","p","s",":","/","/">>,
   <<"h","T","T","p","s",":","/","/">>,
   <<"f","t","p",":","/","/">>,
   <<>>,
   <<"/","/">>,
   <<"h","t","t","p",":">>}
ValidBodies == {<<"e",".","c","o","/","a">>, <<"[">>, <<"x">>, <<>>}
ValidInputs ==
  {l \o p \o b \o r : l \in ValidPads, p \in ValidPrefixes, b \in ValidBodies, r \in ValidPads}

ValidInit ==
  /\ CrawlIdle
  /\ IndexerIdle
  /\ HistInit
  /\ current_url = <<>>
  /\ retries = DefaultRetries
  /\ attempt = 0
  /\ response = "pending"
  /\ events = <<>>
  /\ failed = {}
  /\ any_fail = FALSE
  /\ v_input \in ValidInputs
  /\ v_url = v_input
  /\ v_result = "pending"
  /\ pc = "v_call"

\* all variables but those of is_valid_url
notValidVars == <<crawlVars, fetchVars, histVars, rerunVars, pages_dir, listing, file_i,
                  inverted_index, doc_count, idf, index_file, idf_file, error>>

\* if not url: return False
ValidEmpty ==
  /\ pc = "v_call"
  /\ v_url = <<>>
  /\ v_result' = "False"
  /\ pc' = "v_returned"
  /\ UNCHANGED <<notValidVars, v_input, v_url>>

\* url = url.strip().lower()
ValidNormalise ==
  /\ pc = "v_call"
  /\ v_url # <<>>
  /\ v_url' = Lower(Strip(v_url))
  /\ pc' = "v_prefix"
  /\ UNCHANGED <<notValidVars, v_input, v_result>>

\* if any(url.startswith(bad) for bad in bad_prefixes): return False
ValidBadPrefix ==
  /\ pc = "v_prefix"
  /\ \E i \in DOMAIN bad_prefixes : StartsWith(v_url, bad_prefixes[i])
  /\ v_result' = "False"
  /\ pc' = "v_returned"
  /\ UNCHANGED <<notValidVars, v_input, v_url>>

\* no bad prefix: on to the parse
ValidNoBadPrefix ==
  /\ pc = "v_prefix"
  /\ ~\E i \in DOMAIN bad_prefixes : StartsWith(v_url, bad_prefixes[i])
  /\ pc' = "v_parse"
  /\ UNCHANGED <<notValidVars, validVars>>

\* parsed = urlparse(url); return parsed.scheme in ("http", "https")
ValidParse ==
  /\ pc = "v_parse"
  /\ ~UrlSplitRaises(v_url)
  /\ v_result' = (IF urlparse(v_url).scheme \in {<<"h","t","t","p">>, <<"h","t","t","p","s">>}
                    THEN "True" ELSE "False")
  /\ pc' = "v_returned"
  /\ UNCHANGED <<notValidVars, v_input, v_url>>

\* urlparse(url) raises ValueError, which is_valid_url does not catch
ValidParseRaises ==
  /\ pc = "v_parse"
  /\ UrlSplitRaises(v_url)
  /\ v_result' = "ValueError"
  /\ pc' = "v_raised"
  /\ UNCHANGED <<notValidVars, v_input, v_url>>

ValidNext ==
  \/ ValidEmpty
  \/ ValidNormalise
  \/ ValidBadPrefix
  \/ ValidNoBadPrefix
  \/ ValidParse
  \/ ValidParseRaises

ValidSpec == ValidInit /\ [][ValidNext]_vars

(***************************************************************************)
(* The indexer, milestone3_indexer.py.                                     *)
(***************************************************************************)
allCrawlVars == <<crawlVars, fetchVars, histVars, validVars>>

PAGES_DIR == "BASE_DIR/../pages"

DotHtml == <<".","h","t","m","l">>
Page1 == <<"1">> \o DotHtml
Page2 == <<"2">> \o DotHtml
Page3Upper == <<"3",".","H","T","M","L">>
NotesTxt == <<"n",".","t","x","t">>
FileNames == {Page1, Page2, Page3Upper, NotesTxt}

\* the texts soup.get_text() yields for the files of the model
TextCatDog == <<"C","a","t"," ","d","o","g">>
TextCatCat == <<"c","a","t"," "," ","C","A","T","\n">>
TextEmpty == <<>>
Texts == {TextCatDog, TextCatCat, TextEmpty}

\* what an earlier run left in inverted_index.json and idf.json
StaleIndex == FileOf((<<"o","l","d">> :> <<Page1>>))
StaleIdf == FileOf((<<"o","l","d">> :> [num |-> 1, den |-> 1]))

\* the orders os.listdir can yield the names in
Listings(names) ==
  {l \in [1..Cardinality(names) -> names] : \A i, j \in DOMAIN l : l[i] = l[j] => i = j}

IndexInit ==
  /\ pc = "check_dir"
  /\ pages_dir \in {MissingDir} \cup
       {DirOf(f) : f \in UNION {[names -> Texts] : names \in SUBSET FileNames}}
  /\ listing \in Listings(DOMAIN pages_dir.files)
  /\ file_i = 0
  /\ inverted_index = <<>>
  /\ doc_count = 0
  /\ idf = <<>>
  /\ index_file \in {AbsentFile, StaleIndex}
  /\ idf_file = (IF index_file = AbsentFile THEN AbsentFile ELSE StaleIdf)
  /\ error = NoError
  /\ run = 1
  /\ first_listing = <<>>
  /\ first_index_file = AbsentFile
  /\ first_idf_file = AbsentFile
  /\ ValidIdle
  /\ CrawlIdle
  /\ HistInit
  /\ current_url = <<>>
  /\ retries = DefaultRetries
  /\ attempt = 0
  /\ response = "pending"
  /\ events = <<>>
  /\ failed = {}
  /\ any_fail = FALSE

\* variant: the test of the directory is missing
PagesDirMissingNever == FALSE

\* if not os.path.exists(PAGES_DIR)
PagesDirMissing == ~pages_dir.exists

\* raise FileNotFoundError
RaiseNotFound ==
  /\ pc = "check_dir"
  /\ PagesDirMissing
  /\ error' = [type |-> "FileNotFoundError", path |-> PAGES_DIR]
  /\ pc' = "raised"
  /\ UNCHANGED <<allCrawlVars, rerunVars, pages_dir, listing, file_i,
                 inverted_index, doc_count, idf, index_file, idf_file>>

\* the directory exists: the index starts empty and the listing is walked
StartIndexing ==
  /\ pc = "check_dir"
  /\ ~PagesDirMissing
  /\ inverted_index' = <<>>
  /\ doc_count' = 0
  /\ file_i' = 1
  /\ pc' = "files"
  /\ UNCHANGED <<allCrawlVars, rerunVars, pages_dir, listing, idf, index_file,
                 idf_file, error>>

\* file.endswith(".html")
IsHtml(file) == EndsWith(file, DotHtml)

\* soup.get_text().lower().split()
WordsOf(text) == SplitWhitespace(Lower(text))

\* variant: the loop runs over words, not over set(words)
TimesIteratedList(words, w) == Cardinality({i \in DOMAIN words : words[i] = w})

\* for word in set(words): how often the loop body runs for the word w
TimesIterated(words, w) == IF \E i \in DOMAIN words : words[i] = w THEN 1 ELSE 0

\* n times the file name
Repeat(file, n) == [i \in 1..n |-> file]

\* variant: the list of a word is started anew for every file
PostingsFresh(index, w) == <<>>

\* inverted_index[word], a defaultdict(list)
Postings(index, w) == IF w \in DOMAIN index THEN index[w] ELSE <<>>

\* inverted_index after the loop over the words of one file
AddFile(index, words, file) ==
  [w \in DOMAIN index \cup {words[i] : i \in DOMAIN words} |->
     Postings(index, w) \o Repeat(file, TimesIterated(words, w))]

\* one round of the loop over the listing, for a .html file
ReadFile ==
  /\ pc = "files"
  /\ file_i <= Len(listing)
  /\ IsHtml(listing[file_i])
  /\ doc_count' = doc_count + 1
  /\ inverted_index' = AddFile(inverted_index, WordsOf(pages_dir.files[listing[file_i]]),
                               listing[file_i])
  /\ file_i' = file_i + 1
  /\ UNCHANGED <<allCrawlVars, rerunVars, pc, pages_dir, listing, idf,
                 index_file, idf_file, error>>

\* one round of the loop over the listing, for any other file
SkipFile ==
  /\ pc = "files"
  /\ file_i <= Len(listing)
  /\ ~IsHtml(listing[file_i])
  /\ file_i' = file_i + 1
  /\ UNCHANGED <<allCrawlVars, rerunVars, pc, pages_dir, listing,
                 inverted_index, doc_count, idf, index_file, idf_file, error>>

RECURSIVE Gcd(_, _)
Gcd(a, b) == IF b = 0 THEN a ELSE Gcd(b, a % b)

\* math.log(n / d), kept as the quotient n / d in lowest terms;
\* the value is 0 exactly when the quotient is 1 / 1
LogOfRatio(n, d) == [num |-> n \div Gcd(n, d), den |-> d \div Gcd(n, d)]

\* the loop that computes idf
ComputeIdf ==
  /\ pc = "files"
  /\ file_i > Len(listing)
  /\ idf' = [w \in DOMAIN inverted_index |-> LogOfRatio(doc_count, Len(inverted_index[w]))]
  /\ pc' = "save_index"
  /\ UNCHANGED <<allCrawlVars, rerunVars, pages_dir, listing, file_i,
                 inverted_index, doc_count, index_file, idf_file, error>>

\* json.dump(inverted_index, ...)
SaveIndex ==
  /\ pc = "save_index"
  /\ index_file' = FileOf(inverted_index)
  /\ pc' = "save_idf"
  /\ UNCHANGED <<allCrawlVars, rerunVars, pages_dir, listing, file_i,
                 inverted_index, doc_count, idf, idf_file, error>>

\* json.dump(idf, ...), and the closing messages
SaveIdf ==
  /\ pc = "save_idf"
  /\ idf_file' = FileOf(idf)
  /\ pc' = "indexed"
  /\ UNCHANGED <<allCrawlVars, rerunVars, pages_dir, listing, file_i,
                 inverted_index, doc_count, idf, index_file, error>>

IndexNext ==
  \/ RaiseNotFound
  \/ StartIndexing
  \/ ReadFile
  \/ SkipFile
  \/ ComputeIdf
  \/ SaveIndex
  \/ SaveIdf

IndexSpec == IndexInit /\ [][IndexNext]_vars

\* the script is started again on the same directory: a new process, whose
\* module-level inverted_index and doc_count start empty again and whose
\* os.listdir call yields the names in an order of its own
Rerun ==
  /\ pc = "indexed"
  /\ run = 1
  /\ run' = 2
  /\ first_listing' = listing
  /\ first_index_file' = index_file
  /\ first_idf_file' = idf_file
  /\ listing' \in Listings(DOMAIN pages_dir.files)
  /\ file_i' = 0
  /\ inverted_index' = <<>>
  /\ doc_count' = 0
  /\ idf' = <<>>
  /\ pc' = "check_dir"
  /\ UNCHANGED <<allCrawlVars, pages_dir, index_file, idf_file, error>>

RerunNext ==
  \/ IndexNext
  \/ Rerun

\* two builds in a row on one directory
RerunSpec == IndexInit /\ [][RerunNext]_vars

(***************************************************************************)
(* Properties of crawl.                                                    *)
(***************************************************************************)
\* the program is inside fetch_with_retry
InFetch == pc \in {"for", "attempt", "backoff"}

\* the values of a sequence
Values(f) == {f[i] : i \in DOMAIN f}

\* the bound holds, no fetch is under way at the bound, and a run without
\* a failed attempt ends with MAX_PAGES visited URLs
C1_Bounded ==
  /\ Cardinality(visited) <= MAX_PAGES
  /\ (Cardinality(visited) >= MAX_PAGES) => ~InFetch /\ pc # "returned"
  /\ (pc = "done" /\ ~any_fail /\ MAX_PAGES <= Cardinality(DOMAIN Site))
       => Cardinality(visited) = MAX_PAGES

\* at the bound no step takes anything from the queue or adds to it
C1_NoDequeueAtBound ==
  [][Cardinality(visited) >= MAX_PAGES => queue' = queue /\ dequeued' = dequeued]_vars

\* C1: the number of visited URLs never exceeds MAX_PAGES; once it has reached
\* MAX_PAGES nothing is dequeued and nothing is fetched any more, whatever the
\* queue holds; when every fetch succeeds and the site has at least
\* MAX_PAGES pages (MAX_PAGES = 2 on the 5-page site), the crawl ends with
\* exactly MAX_PAGES visited URLs.
C1_MaxPages == []C1_Bounded /\ C1_NoDequeueAtBound

C1_Witness ==
  /\ pc = "done"
  /\ MAX_PAGES = 2
  /\ ~any_fail
  /\ Cardinality(visited) = 2
  /\ queue # <<>>

\* C2: a URL is processed at most once: a fetch is only ever under way for a
\* URL that is not visited, a page is saved and marked only for a URL that is
\* not visited, and no two saved pages are pages of the same URL, however
\* many copies of the URL the queue held.
C2_ProcessedOnce ==
  /\ (InFetch \/ pc \in {"returned", "links", "mark"}) => current_url \notin visited
  /\ \A i, j \in DOMAIN pages : pages[i] = pages[j] => i = j
  /\ Values(pages) \subseteq visited \cup {current_url}

C2_Witness ==
  /\ pc = "done"
  /\ duplicate_urls > 0
  /\ \E i, j \in DOMAIN enq_log : i # j /\ enq_log[i].url = enq_log[j].url
                                   /\ enq_log[i].url \in Values(pages)

\* C3 (as claimed): once the fetch of a URL has failed on all attempts, the URL
\* is not visited and no fetch is ever under way for it again.
C3_FailedNeverFetchedAgain ==
  /\ InFetch => current_url \notin failed
  /\ failed \cap visited = {}

\* C4: every queue entry made in the loop is the link resolved against the
\* page it was found on, passes is_valid_url and has the netloc of the seed;
\* the queue holds nothing else but the seed; of the links UrlD, OtherB and
\* MailTo of the page UrlC only UrlD is enqueued.
C4_OnlyEligibleEnqueued ==
  /\ \A i \in DOMAIN enq_log : i > 1 =>
       /\ enq_log[i].url = urljoin(enq_log[i].base, enq_log[i].href)
       /\ is_valid_url(enq_log[i].url)
       /\ urlparse(enq_log[i].url).netloc = urlparse(seed_url).netloc
  /\ \A k \in DOMAIN queue : \E i \in DOMAIN enq_log : enq_log[i].url = queue[k]
  /\ (pc = "mark" /\ current_url = UrlC) =>
       SelectSeq(enq_log, LAMBDA e : e.base = UrlC)
         = <<[url |-> UrlD, base |-> UrlC, href |-> UrlD]>>

C4_Witness ==
  /\ pc = "mark"
  /\ current_url = UrlC
  /\ Len(enq_log) > 1

\* C5: the queue is FIFO: it starts as the seed alone, and at every moment it
\* is, in order, the entries made so far without the first `dequeued` of
\* them; the URL of the iteration is the entry dequeued last.  So entries
\* leave in the order they were made, the links of a page in page order.
C5_Fifo ==
  /\ enq_log[1].url = seed_url
  /\ dequeued <= Len(enq_log)
  /\ queue = [k \in 1..(Len(enq_log) - dequeued) |-> enq_log[dequeued + k].url]
  /\ dequeued >= 1 => current_url = enq_log[dequeued].url

C5_Witness ==
  /\ dequeued >= 3
  /\ Len(queue) >= 2
  /\ queue[1] # queue[2]

(***************************************************************************)
(* Properties of fetch_with_retry.                                         *)
(***************************************************************************)
\* the attempts of the call, in order
Attempts == SelectSeq(events, LAMBDA e : e.kind # "sleep")
Sleeps == SelectSeq(events, LAMBDA e : e.kind = "sleep")
Failures == SelectSeq(events, LAMBDA e : e.kind = "fail")

\* C6: the attempts are made one after the other, at most `retries` of them,
\* none after a successful one; the call returns the response exactly when
\* its last attempt succeeded and None exactly when all `retries` attempts
\* failed.
C6_FetchResult ==
  /\ Len(Attempts) <= retries
  /\ \A i \in 1..(Len(Attempts) - 1) : Attempts[i].kind = "fail"
  /\ pc = "returned" =>
       /\ response \in {"response", "None"}
       /\ response = "response" <=>
            (Attempts # <<>> /\ Attempts[Len(Attempts)].kind = "ok")
       /\ response = "None" <=>
            (Len(Attempts) = retries /\ \A i \in DOMAIN Attempts : Attempts[i].kind = "fail")
  /\ pc # "returned" => response = "pending"

C6_Witness ==
  /\ pc = "returned"
  /\ retries = 3
  /\ response = "response"
  /\ Len(Attempts) = 3
  /\ Attempts[1].kind = "fail" /\ Attempts[2].kind = "fail"

\* C7: a sleep of one second follows each failed attempt that another attempt
\* follows, and there is no other sleep: every sleep comes right after a
\* failed attempt and right before the next attempt, never last; a call that
\* succeeds after k failures has slept k times, a call of retries >= 1
\* attempts that all failed has slept retries - 1 times.
C7_Backoff ==
  /\ \A i \in DOMAIN events : events[i].kind = "sleep" =>
       /\ events[i].ms = 1000
       /\ i > 1 /\ events[i - 1].kind = "fail"
       /\ i < Len(events) => events[i + 1].kind # "sleep"
  /\ \A i \in DOMAIN events :
       (events[i].kind = "fail" /\ i < Len(events)) => events[i + 1].kind = "sleep"
  /\ (pc = "attempt" /\ attempt > 1) => events[Len(events)].kind = "sleep"
  /\ pc = "returned" =>
       /\ events # <<>> => events[Len(events)].kind # "sleep"
       /\ response = "response" => Len(Sleeps) = Len(Failures)
       /\ (response = "None" /\ retries >= 1) => Len(Sleeps) = retries - 1

C7_Witness ==
  /\ pc = "returned"
  /\ response = "None"
  /\ retries = 3
  /\ Len(Sleeps) = 2
  /\ Len(Failures) = 3

(***************************************************************************)
(* Properties of the indexer.                                              *)
(***************************************************************************)
\* the .html files of the pages directory
HtmlFiles == {f \in DOMAIN pages_dir.files : EndsWith(f, DotHtml)}

\* the artifacts are as the earlier run left them
ArtifactsUntouched ==
  /\ index_file \in {AbsentFile, StaleIndex}
  /\ idf_file \in {AbsentFile, StaleIdf}

\* C8 (as claimed): over a directory that exists and holds no .html file the
\* run ends in an error and writes neither artifact.
C8_EmptyCorpusIsError ==
  (pages_dir.exists /\ HtmlFiles = {}) =>
    /\ pc # "indexed"
    /\ ArtifactsUntouched

\* C9: when the pages directory does not exist, the run stops with a
\* FileNotFoundError that names PAGES_DIR, before the directory is listed or
\* any file is read, and both artifacts stay as they were.
C9_MissingDirIsFatal ==
  ~pages_dir.exists =>
    /\ pc \in {"check_dir", "raised"}
    /\ pc = "raised" => error = [type |-> "FileNotFoundError", path |-> PAGES_DIR]
    /\ file_i = 0 /\ doc_count = 0 /\ inverted_index = <<>>
    /\ ArtifactsUntouched

C9_Witness ==
  /\ ~pages_dir.exists
  /\ pc = "raised"
  /\ index_file = StaleIndex

\* C10: once idf is computed over a corpus of at least one document, it has
\* one entry per term of the inverted index, the logarithm of
\* doc_count / df with df the length of the posting list and doc_count the
\* number of .html files; 1 <= df <= doc_count, so the quotient is >= 1, and
\* it is 1 (idf = 0) for a term of every document; idf.json holds that table.
C10_Idf ==
  (pc \in {"save_index", "save_idf", "indexed"} /\ doc_count > 0) =>
    /\ doc_count = Cardinality(HtmlFiles)
    /\ DOMAIN idf = DOMAIN inverted_index
    /\ \A w \in DOMAIN idf :
         /\ Len(inverted_index[w]) >= 1
         /\ Len(inverted_index[w]) <= doc_count
         /\ idf[w].num * Len(inverted_index[w]) = idf[w].den * doc_count
         /\ Gcd(idf[w].num, idf[w].den) = 1
         /\ idf[w].num >= idf[w].den
         /\ (\A f \in HtmlFiles : \E i \in DOMAIN inverted_index[w] : inverted_index[w][i] = f)
              => idf[w] = [num |-> 1, den |-> 1]
    /\ pc = "indexed" => idf_file = FileOf(idf)

C10_Witness ==
  /\ pc = "indexed"
  /\ doc_count = 2
  /\ idf_file.data = (<<"c","a","t">> :> [num |-> 1, den |-> 1])
                       @@ (<<"d","o","g">> :> [num |-> 2, den |-> 1])

\* the .html files the loop over the listing has gone through
Processed == {listing[k] : k \in {j \in 1..(file_i - 1) : EndsWith(listing[j], DotHtml)}}

\* the words of the lowercased, whitespace-split text of a file
TermsOf(f) == Values(SplitWhitespace(Lower(pages_dir.files[f])))

\* C11: at every point of a build no posting list holds a file twice, and a
\* file is in the posting list of a term exactly when the file has been
\* processed and its lowercased, whitespace-split text holds the term.
C11_Postings ==
  pc \in {"files", "save_index", "save_idf", "indexed"} =>
    /\ \A w \in DOMAIN inverted_index :
         \A i, j \in DOMAIN inverted_index[w] :
           inverted_index[w][i] = inverted_index[w][j] => i = j
    /\ \A w \in DOMAIN inverted_index : \A f \in DOMAIN pages_dir.files :
         (f \in Values(inverted_index[w])) <=> (f \in Processed /\ w \in TermsOf(f))
    /\ \A f \in Processed : TermsOf(f) \subseteq DOMAIN inverted_index
    /\ \A w \in DOMAIN inverted_index : Values(inverted_index[w]) \subseteq Processed

C11_Witness ==
  /\ pc = "files"
  /\ Processed = {Page1}
  /\ pages_dir.files[Page1] = TextCatCat
  /\ Page2 \in DOMAIN pages_dir.files
  /\ inverted_index = (<<"c","a","t">> :> <<Page1>>)

\* C12: when a second build on the unchanged directory has finished, idf.json
\* and inverted_index.json are what the first build left: the same idf table,
\* the same terms and the same posting lists.
C12_RerunIdentical ==
  (pc = "indexed" /\ run = 2) =>
    /\ idf_file = first_idf_file
    /\ index_file = first_index_file

\* C13: whenever an iteration has ended and the loop is about to test its
\* condition for the next one, the courtesy delay has been slept since the
\* iteration's outcome, whether it saved a page, failed to fetch or met a
\* duplicate.
C13_DelayEveryIteration ==
  (pc = "loop" /\ last_outcome # "none") => delay_ms = CourtesyDelayMs

\* the crawl has stopped: no step of it follows
Halted == pc \in {"done", "aborted"}

\* C14: a crawl stops nowhere but at DONE (the runs of a finite site are
\* finite, so every run then reaches DONE), and at DONE the queue is empty
\* or the visited count has reached MAX_PAGES.
C14_ReachesDone ==
  Halted => /\ pc = "done"
            /\ queue = <<>> \/ Cardinality(visited) >= MAX_PAGES

\* the iteration has passed its save and not yet its page_id += 1
SavedNotCounted == pc \in {"links", "mark", "incr", "aborted"}

\* C15: the k-th saved page has id k and is the file of that id, the next
\* id is one more than the number of pages saved and counted, and after an
\* iteration that skipped its URL (duplicate or failed fetch) the next id
\* and the saved files are what they were when the iteration began.
C15_SequentialIds ==
  /\ \A k \in DOMAIN save_log : save_log[k].id = k
  /\ DOMAIN pages = 1..Len(save_log)
  /\ \A k \in DOMAIN save_log : pages[k] = save_log[k].url
  /\ page_id = (IF SavedNotCounted THEN Len(save_log) ELSE Len(save_log) + 1)
  /\ (pc = "loop" /\ last_outcome \in {"duplicate", "failed"}) =>
       (page_id = snap.page_id /\ pages = snap.pages)

C15_Witness ==
  /\ pc = "loop"
  /\ last_outcome = "failed"
  /\ duplicate_urls > 0
  /\ Len(save_log) = 2
  /\ page_id = 3

\* C16: is_valid_url ends with a boolean for every argument, and the boolean
\* is True exactly when the argument is not empty, its stripped, lowercased
\* form starts with none of mailto:, javascript:, tel:, # and the scheme it
\* parses to is http or https.
C16_Validator ==
  pc \in {"v_returned", "v_raised"} =>
    /\ v_result \in {"True", "False"}
    /\ v_result = "True" <=>
         /\ v_input # <<>>
         /\ ~\E i \in DOMAIN bad_prefixes : StartsWith(Lower(Strip(v_input)), bad_prefixes[i])
         /\ urlparse(Lower(Strip(v_input))).scheme \in {<<"h","t","t","p">>, <<"h","t","t","p","s">>}

\* the dequeues so far whose URL had been saved, and so marked visited, by
\* an earlier iteration (the k-th dequeue takes the k-th URL ever enqueued)
DuplicateDequeues ==
  {k \in 1..dequeued :
     \E i \in DOMAIN save_log : save_log[i].url = enq_log[k].url /\ save_log[i].at < k}

\* the counter is the number of dequeues that met a visited URL
C17_Counted == duplicate_urls = Cardinality(DuplicateDequeues)

\* the counter changes only when the loop dequeues a visited URL, by one, in
\* a step that fetches nothing, saves nothing and enqueues nothing
C17_CountingStep ==
  [][/\ (duplicate_urls' # duplicate_urls) <=>
          (pc = "loop" /\ LoopCondition /\ Head(queue) \in visited)
     /\ (duplicate_urls' # duplicate_urls) =>
          /\ duplicate_urls' = duplicate_urls + 1
          /\ pc' = "loop"
          /\ queue' = Tail(queue)
          /\ events' = events
          /\ pages' = pages
          /\ save_log' = save_log
          /\ enq_log' = enq_log
          /\ visited' = visited]_vars

\* C17: the duplicate counter starts at 0 and is at every point the number of
\* dequeues that met an already visited URL; it grows by one exactly in the
\* iterations that dequeue a visited URL, and those fetch, save and enqueue
\* nothing; visited URLs left in the queue at the end are not counted.
C17_Duplicates == []C17_Counted /\ C17_CountingStep

C17_Witness ==
  /\ pc = "done"
  /\ duplicate_urls = 1
  /\ \E k \in DOMAIN queue : queue[k] \in visited

\* the visited count is the number of pages saved, less the page of an
\* iteration that has not come to its visited.add yet
C18_CountsSaves ==
  /\ Cardinality(visited)
       = Len(save_log) - (IF pc \in {"links", "mark", "aborted"} THEN 1 ELSE 0)
  /\ pc = "done" => visited_file = FileOf(visited)

\* visited changes only at visited.add, after the last link of the page of
\* a fetched and saved URL, and by that URL alone
C18_GrowsAtMark ==
  [][/\ visited \subseteq visited'
     /\ visited' # visited =>
          /\ pc = "mark"
          /\ visited' = visited \cup {current_url}
          /\ current_url \notin visited
          /\ response = "response"
          /\ last_outcome = "saved"
          /\ save_log[Len(save_log)].url = current_url
          /\ link_i > Len(Hrefs(current_url))]_vars

\* C18: the visited set never shrinks and grows only at the mark-visited
\* step of an iteration that fetched and saved its URL, by that URL, after
\* all links of its page have been gone through; so len(visited), which the
\* summary reports, is the number of iterations that fetched successfully.
C18_VisitedGrowth == []C18_CountsSaves /\ C18_GrowsAtMark

C18_Witness ==
  /\ pc = "incr"
  /\ current_url \in visited
  /\ Cardinality(visited) = 2
  /\ Len(Hrefs(current_url)) > 0

\* C19: whenever the loop is about to test its condition and when it has
\* ended, page_id is len(visited) + 1, the page files written are those of
\* the ids 1..len(visited), and the files and the visited URLs correspond
\* one to one.
C19_IdsMatchVisited ==
  pc \in {"loop", "done"} =>
    /\ page_id = Cardinality(visited) + 1
    /\ DOMAIN pages = 1..Cardinality(visited)
    /\ Values(pages) = visited
    /\ \A i, j \in DOMAIN pages : pages[i] = pages[j] => i = j

C19_Witness ==
  /\ pc = "done"
  /\ any_fail
  /\ duplicate_urls > 0
  /\ Cardinality(visited) = 3
  /\ page_id = 4

\* of the state the iteration began with, only the head of the queue is gone
OnlyHeadRemoved ==
  /\ snap.queue # <<>>
  /\ current_url = Head(snap.queue)
  /\ queue = Tail(snap.queue)
  /\ visited = snap.visited
  /\ page_id = snap.page_id
  /\ duplicate_urls = snap.duplicate_urls
  /\ pages = snap.pages

\* through the fetch and after its total failure nothing but the head of
\* the queue has changed, and the failure leaves the crawl at the loop test
C20_Frame ==
  /\ (InFetch \/ pc = "returned") => OnlyHeadRemoved
  /\ (pc = "loop" /\ last_outcome = "failed") => OnlyHeadRemoved

\* the step after a total failure goes to the loop test, and from there the
\* crawl takes the next queued URL when the loop condition holds
C20_Continues ==
  [][/\ (pc = "returned" /\ response = "None") => (pc' = "loop" /\ queue' = queue)
     /\ (pc = "loop" /\ last_outcome = "failed" /\ LoopCondition) =>
          (current_url' = Head(queue) /\ queue' = Tail(queue))]_vars

\* C20: an iteration whose fetch fails on all attempts takes the head off the
\* queue and changes nothing else of the queue, the visited set, the next
\* page id, the duplicate counter and the saved pages; the crawl does not
\* abort but goes on with the next queued URL.
C20_FailedFetchFrame == []C20_Frame /\ C20_Continues

C20_Witness ==
  /\ pc = "loop"
  /\ last_outcome = "failed"
  /\ visited # {}
  /\ queue # <<>>
  /\ LoopCondition

====
